---- MODULE Spec2Model ----
(***************************************************************************)
(* The lucetc compilation driver (lucetc/src/lib.rs): the Lucetc builder,  *)
(* its configuration operations in consuming and mutating form, the three  *)
(* terminal operations and the linker shim link_so.                         *)
(*                                                                         *)
(* The collaborators that lib.rs only calls (Bindings, read_module,        *)
(* patch_module, Compiler, the object writer, tempfile, ld) are modelled   *)
(* from their contracts; what they can return is chosen nondeterministically*)
(* wherever the contract leaves it open.                                    *)
(***************************************************************************)
EXTENDS Integers, Sequences, FiniteSets, TLC

\* ------------------------------------------------------------------ bounds

\* Largest number of (namespace, field) entries in a caller-supplied Bindings.
MaxBindEntries == 2
\* Largest number of bytes the linker writes to stderr.
MaxStderrLen == 1

\* ------------------------------------------------------------- value spaces

Namespaces == {"env", "wasi"}
Fields == {"print", "sqrt"}
\* The (namespace, field) pairs that occur in the model.
Keys == {<<"env", "sqrt">>, <<"wasi", "print">>}
Symbols == {"host_fn", "other_fn"}
NotBound == "NotBound"

OptLevels == {"none", "speed", "speed_and_size"}
HeapSizes == {32768, 65536}

WasmPaths == {"imports.wasm", "plain.wasm", "missing.wasm"}
BuiltinsPaths == {"builtins.o", "builtins2.o", "badsig.o", "missing.o"}

\* An error value; Link errors carry more fields (see link_so).
NoErr == [kind |-> "none"]
Err(k) == [kind |-> k]

\* ------------------------------------------------------- Bindings registry

\* Bindings::empty()
EmptyBindings == [k \in Keys |-> NotBound]

\* Bindings::env(map): the only namespace is "env".
Env(map) ==
    [k \in Keys |-> IF k[1] = "env" THEN map[k[2]] ELSE NotBound]

BoundKeys(b) == {k \in Keys : b[k] # NotBound}

\* The keys on which other redefines an entry of self with a different symbol.
Conflicts(self, other) ==
    {k \in Keys : other[k] # NotBound /\ self[k] # NotBound /\ self[k] # other[k]}

\* Bindings::extend(&mut self, other): absent entries are inserted, identical
\* ones are a no-op, a different symbol fails and leaves self unchanged.
Extend(self, other) ==
    IF Conflicts(self, other) # {}
    THEN [ok |-> FALSE, err |-> Err("BindingsConflict"), bindings |-> self]
    ELSE [ok |-> TRUE, err |-> NoErr,
          bindings |-> [k \in Keys |-> IF other[k] # NotBound THEN other[k] ELSE self[k]]]

\* The Bindings values a caller passes.
BindingsArgs ==
    {b \in [Keys -> Symbols \cup {NotBound}] : Cardinality(BoundKeys(b)) <= MaxBindEntries}

\* ------------------------------------------------------------------ Module

\* A decoded module, as far as the driver's contracts see it: its unresolved
\* imports and the imports the Patcher has rewritten to host symbols.
NoPatches == [k \in Keys |-> NotBound]

\* read_module(path)
read_module(path) ==
    CASE path = "imports.wasm" ->
            [ok |-> TRUE, err |-> NoErr,
             module |-> [imports |-> {<<"env", "sqrt">>}, patched |-> NoPatches]]
      [] path = "plain.wasm" ->
            [ok |-> TRUE, err |-> NoErr,
             module |-> [imports |-> {}, patched |-> NoPatches]]
      [] OTHER ->
            [ok |-> FALSE, err |-> Err("Load"),
             module |-> [imports |-> {}, patched |-> NoPatches]]

\* The builtins artifacts: the primitives each defines (field -> host symbol)
\* and the primitives whose signature is incompatible with the guest import.
Artifact(path) ==
    CASE path = "builtins.o" ->
            [readable |-> TRUE,
             defs |-> [f \in Fields |-> IF f = "sqrt" THEN "host_fn" ELSE NotBound],
             badsig |-> {}]
      [] path = "builtins2.o" ->
            [readable |-> TRUE,
             defs |-> [f \in Fields |-> IF f = "sqrt" THEN "other_fn" ELSE "host_fn"],
             badsig |-> {}]
      [] path = "badsig.o" ->
            [readable |-> TRUE,
             defs |-> [f \in Fields |-> IF f = "sqrt" THEN "host_fn" ELSE NotBound],
             badsig |-> {"sqrt"}]
      [] OTHER ->
            [readable |-> FALSE, defs |-> [f \in Fields |-> NotBound], badsig |-> {}]

\* patch_module(module, builtins_path) -> (newmodule, builtins_map)
patch_module(module, path) ==
    LET art == Artifact(path)
        hits == {k \in module.imports : k[1] = "env" /\ art.defs[k[2]] # NotBound}
    IN  IF ~art.readable
        THEN [ok |-> FALSE, err |-> Err("PatchArtifactRead"),
              module |-> module, map |-> [f \in Fields |-> NotBound]]
        ELSE IF \E k \in hits : k[2] \in art.badsig
        THEN [ok |-> FALSE, err |-> Err("PatchSignatureMismatch"),
              module |-> module, map |-> [f \in Fields |-> NotBound]]
        ELSE [ok |-> TRUE, err |-> NoErr,
              module |-> [imports |-> module.imports \ hits,
                          patched |-> [k \in Keys |-> IF k \in hits THEN art.defs[k[2]]
                                                     ELSE module.patched[k]]],
              map |-> [f \in Fields |-> IF <<"env", f>> \in hits THEN art.defs[f]
                                        ELSE NotBound]]

\* ------------------------------------------------------------------ driver

\* OptLevel::default() and HeapSettings::default()
DefaultOptLevel == "none"
DefaultHeap ==
    [min_reserved_size |-> 32768, max_reserved_size |-> 65536, guard_size |-> 32768]

\* struct Lucetc as built by Lucetc::new from a loaded module.
NewLucetc(module) ==
    [module |-> module, bindings |-> EmptyBindings,
     opt_level |-> DefaultOptLevel, heap |-> DefaultHeap]

\* The value of drv while no driver exists.
NoLucetc == NewLucetc([imports |-> {}, patched |-> NoPatches])

\* What a driver method hands back: the outcome, the driver's fields after the
\* call, and who holds the driver afterwards ("caller", or "dropped" when a
\* by-value self was not returned).
Result(ok, err, d, owner) == [ok |-> ok, err |-> err, drv |-> d, owner |-> owner]

\* A by-value configuration method: `self.with_x(..)?; Ok(self)`.
Consuming(r) == Result(r.ok, r.err, r.drv, IF r.ok THEN "caller" ELSE "dropped")

\* A with_bindings that keeps the entries merged before the conflict was met.
with_bindings_partial(d, b) ==
    LET e == Extend(d.bindings, b)
        kept == [k \in Keys |-> IF d.bindings[k] = NotBound THEN b[k] ELSE d.bindings[k]]
    IN  Result(e.ok, e.err, [d EXCEPT !.bindings = IF e.ok THEN e.bindings ELSE kept],
               "caller")

\* A with_bindings that rejects every re-declaration, identical ones included.
with_bindings_strict(d, b) ==
    LET e == Extend(d.bindings, b)
        redecl == \E k \in Keys : b[k] # NotBound /\ d.bindings[k] # NotBound
    IN  IF redecl THEN Result(FALSE, Err("BindingsConflict"), d, "caller")
        ELSE Result(e.ok, e.err, [d EXCEPT !.bindings = e.bindings], "caller")

with_bindings(d, b) ==
    LET e == Extend(d.bindings, b)
    IN  Result(e.ok, e.err, [d EXCEPT !.bindings = e.bindings], "caller")

bindings(d, b) == Consuming(with_bindings(d, b))

with_opt_level(d, o) == Result(TRUE, NoErr, [d EXCEPT !.opt_level = o], "caller")

\* An opt_level that hands self back without storing the level.
opt_level_forgetful(d, o) == Result(TRUE, NoErr, d, "caller")

opt_level(d, o) == Consuming(with_opt_level(d, o))

\* A with_builtins that moves the module out of self for the Patcher, leaving
\* an empty one behind when the Patcher fails.
with_builtins_no_clone(d, path) ==
    LET p == patch_module(d.module, path)
    IN  IF ~p.ok
        THEN Result(FALSE, p.err, [d EXCEPT !.module = [imports |-> {}, patched |-> NoPatches]],
                    "caller")
        ELSE LET d1 == [d EXCEPT !.module = p.module]
                 e == Extend(d1.bindings, Env(p.map))
             IN  Result(e.ok, e.err, [d1 EXCEPT !.bindings = e.bindings], "caller")

\* A with_builtins that assigns the builtins map as the registry.
with_builtins_overwrite(d, path) ==
    LET p == patch_module(d.module, path)
    IN  IF ~p.ok THEN Result(FALSE, p.err, d, "caller")
        ELSE Result(TRUE, NoErr, [d EXCEPT !.module = p.module, !.bindings = Env(p.map)],
                    "caller")

with_builtins(d, path) ==
    LET p == patch_module(d.module, path)
    IN  IF ~p.ok THEN Result(FALSE, p.err, d, "caller")
        ELSE LET d1 == [d EXCEPT !.module = p.module]
                 e == Extend(d1.bindings, Env(p.map))
             IN  Result(e.ok, e.err, [d1 EXCEPT !.bindings = e.bindings], "caller")

builtins(d, path) == Consuming(with_builtins(d, path))

\* A with_min_reserved_size that stores into the neighbouring field.
with_min_reserved_size_wrong_field(d, n) ==
    Result(TRUE, NoErr, [d EXCEPT !.heap.max_reserved_size = n], "caller")

with_min_reserved_size(d, n) ==
    Result(TRUE, NoErr, [d EXCEPT !.heap.min_reserved_size = n], "caller")

min_reserved_size(d, n) == Consuming(with_min_reserved_size(d, n))

with_max_reserved_size(d, n) ==
    Result(TRUE, NoErr, [d EXCEPT !.heap.max_reserved_size = n], "caller")

max_reserved_size(d, n) == Consuming(with_max_reserved_size(d, n))

\* A with_guard_size that rebuilds the heap settings around the new value.
with_guard_size_clobber(d, n) ==
    Result(TRUE, NoErr, [d EXCEPT !.heap = [DefaultHeap EXCEPT !.guard_size = n]], "caller")

with_guard_size(d, n) ==
    Result(TRUE, NoErr, [d EXCEPT !.heap.guard_size = n], "caller")

guard_size(d, n) == Consuming(with_guard_size(d, n))

\* ------------------------------------------------- backend, files, linker

\* parity_wasm::elements::serialize(module): the module's byte form.
serialize(module) == [written |-> TRUE, wasm |-> module]

\* module_contents before serialize has run.
NoBytes == [written |-> FALSE, wasm |-> [imports |-> {}, patched |-> NoPatches]]

\* Compiler::new(&module_contents, opt_level, &bindings, heap). The backend
\* rejects heap settings with min_reserved_size > max_reserved_size; whether
\* it accepts the module otherwise (accepted) is the backend's business.
Compiler_new(module_contents, o, b, h, accepted) ==
    IF h.min_reserved_size > h.max_reserved_size
    THEN [ok |-> FALSE, err |-> Err("InvalidHeap")]
    ELSE IF ~accepted
    THEN [ok |-> FALSE, err |-> Err("Backend")]
    ELSE [ok |-> TRUE, err |-> NoErr, module_contents |-> module_contents,
          opt_level |-> o, bindings |-> b, heap |-> h]

NoCompiler == [ok |-> FALSE, err |-> Err("none")]

\* The files a terminal operation touches: its temporary directory, the
\* object inside it, what was written at the caller's output path, and the
\* number of writes of an artifact it has asked for.
CleanFs == [tmpdir |-> FALSE, tmpobj |-> FALSE, out |-> "none", writes |-> 0]

\* A shared_object_file whose temporary directory outlives the call.
keep_tempdir(f) == f

\* The TempDir `dir` of shared_object_file goes out of scope: the directory
\* and what it holds are removed.
drop_tempdir(f) == [f EXCEPT !.tmpdir = FALSE, !.tmpobj = FALSE]

\* What ld can do: fail to start, or exit with a status after writing stderr.
ExitStatuses == {0, 1}
StderrBytes == {102, 255}
StderrOutputs == UNION {[1..n -> StderrBytes] : n \in 0..MaxStderrLen}

\* String::from_utf8_lossy on bytes of StderrBytes: an ASCII byte is its own
\* character, a byte that is no UTF-8 becomes U+FFFD.
from_utf8_lossy(bytes) ==
    [i \in 1..Len(bytes) |-> IF bytes[i] < 128 THEN bytes[i] ELSE 65533]

\* link_so(objpath, sopath), given what running ld did.
link_so(objpath, launched, status, stderr) ==
    IF ~launched
    THEN [ok |-> FALSE, err |-> [kind |-> "Io", context |-> "running ld", objpath |-> objpath]]
    ELSE IF status # 0
    THEN [ok |-> FALSE,
          err |-> [kind |-> "Link", objpath |-> objpath, text |-> from_utf8_lossy(stderr)]]
    ELSE [ok |-> TRUE, err |-> NoErr]

NoLd == [runs |-> 0, launched |-> FALSE, status |-> 0, stderr |-> <<>>]

\* ------------------------------------------------------------------- state

VARIABLES
    state,            \* "NoDriver", "Configuring" or "Consumed"
    drv,              \* the fields of the Lucetc value
    pre,              \* drv as it was when the last configuration call was made
    last,             \* the last driver call that returned, and what it returned
    call,             \* the terminal operation that is running, or "none"
    pc,               \* position inside the running terminal operation
    module_contents,  \* the local of object_file / clif_ir
    compiler,         \* the Compiler handle of the running terminal operation
    fs,               \* the files of the running (or last) terminal operation
    ld,               \* the linker runs of the running (or last) terminal operation
    terminals,        \* terminal operations started on the current driver
    obj,              \* the artifact the backend handed to the running terminal operation
    latest            \* what the caller did to the current driver: the input it was
                      \* created from, whether it was configured, and the argument of
                      \* the most recent call of each overwriting setter

vars == <<state, drv, pre, last, call, pc, module_contents, compiler, fs, ld, terminals, obj,
          latest>>

locals == <<call, pc, module_contents, compiler, fs, ld, obj>>

\* The record of a call: the operation, its arguments and its outcome.
Call(op, ok, err, b, o, n, path) ==
    [op |-> op, ok |-> ok, err |-> err, b |-> b, o |-> o, n |-> n, path |-> path]

NoCall == Call("none", TRUE, NoErr, EmptyBindings, DefaultOptLevel, 0, "")

Returned(op, ok, err) == Call(op, ok, err, EmptyBindings, DefaultOptLevel, 0, "")

\* The caller's record for a driver just created from input.
Created(input) ==
    [input |-> input, configured |-> FALSE, opt_level |-> DefaultOptLevel,
     min_reserved_size |-> DefaultHeap.min_reserved_size,
     max_reserved_size |-> DefaultHeap.max_reserved_size,
     guard_size |-> DefaultHeap.guard_size]

\* The caller's record after the configuration call c.
Configured(l, c) ==
    [l EXCEPT
        !.configured = TRUE,
        !.opt_level = IF c.op \in {"opt_level", "with_opt_level"} THEN c.o ELSE @,
        !.min_reserved_size =
            IF c.op \in {"min_reserved_size", "with_min_reserved_size"} THEN c.n ELSE @,
        !.max_reserved_size =
            IF c.op \in {"max_reserved_size", "with_max_reserved_size"} THEN c.n ELSE @,
        !.guard_size = IF c.op \in {"guard_size", "with_guard_size"} THEN c.n ELSE @]

Init ==
    /\ state = "NoDriver"
    /\ drv = NoLucetc
    /\ pre = NoLucetc
    /\ last = NoCall
    /\ call = "none"
    /\ pc = "idle"
    /\ module_contents = NoBytes
    /\ compiler = NoCompiler
    /\ fs = CleanFs
    /\ ld = NoLd
    /\ terminals = 0
    /\ obj = "none"
    /\ latest = Created("")

\* A new that falls back to an empty module when the input cannot be loaded.
new_unchecked ==
    \E path \in WasmPaths :
        LET m == read_module(path)
        IN  /\ state \in {"NoDriver", "Consumed"}
            /\ pc = "idle"
            /\ state' = "Configuring"
            /\ drv' = NewLucetc(m.module)
            /\ pre' = drv'
            /\ last' = Call("new", m.ok, m.err, EmptyBindings, DefaultOptLevel, 0, path)
            /\ terminals' = 0
            /\ module_contents' = NoBytes
            /\ compiler' = NoCompiler
            /\ fs' = CleanFs
            /\ ld' = NoLd
            /\ obj' = "none"
            /\ latest' = Created(IF m.ok THEN path ELSE "")
            /\ UNCHANGED <<call, pc>>

\* Lucetc::new(input). The caller starts afresh: what an earlier driver's
\* terminal operation left behind is no longer looked at.
new ==
    \E path \in WasmPaths :
        LET m == read_module(path)
        IN  /\ state \in {"NoDriver", "Consumed"}
            /\ pc = "idle"
            /\ state' = IF m.ok THEN "Configuring" ELSE "NoDriver"
            /\ drv' = IF m.ok THEN NewLucetc(m.module) ELSE NoLucetc
            /\ pre' = drv'
            /\ last' = Call("new", m.ok, m.err, EmptyBindings, DefaultOptLevel, 0, path)
            /\ terminals' = 0
            /\ module_contents' = NoBytes
            /\ compiler' = NoCompiler
            /\ fs' = CleanFs
            /\ ld' = NoLd
            /\ obj' = "none"
            /\ latest' = Created(IF m.ok THEN path ELSE "")
            /\ UNCHANGED <<call, pc>>

\* A configuration call on the driver the caller holds, returning r.
Configure(r, c) ==
    /\ state = "Configuring"
    /\ pc = "idle"
    /\ pre' = drv
    /\ drv' = r.drv
    /\ state' = IF r.owner = "caller" THEN "Configuring" ELSE "Consumed"
    /\ last' = c
    /\ latest' = Configured(latest, c)
    /\ UNCHANGED <<locals, terminals>>

call_bindings ==
    \E b \in BindingsArgs :
        LET r == bindings(drv, b)
        IN  Configure(r, Call("bindings", r.ok, r.err, b, DefaultOptLevel, 0, ""))

call_with_bindings ==
    \E b \in BindingsArgs :
        LET r == with_bindings(drv, b)
        IN  Configure(r, Call("with_bindings", r.ok, r.err, b, DefaultOptLevel, 0, ""))

call_opt_level ==
    \E o \in OptLevels :
        LET r == opt_level(drv, o)
        IN  Configure(r, Call("opt_level", r.ok, r.err, EmptyBindings, o, 0, ""))

call_with_opt_level ==
    \E o \in OptLevels :
        LET r == with_opt_level(drv, o)
        IN  Configure(r, Call("with_opt_level", r.ok, r.err, EmptyBindings, o, 0, ""))

call_builtins ==
    \E path \in BuiltinsPaths :
        LET r == builtins(drv, path)
        IN  Configure(r, Call("builtins", r.ok, r.err, EmptyBindings, DefaultOptLevel, 0, path))

call_with_builtins ==
    \E path \in BuiltinsPaths :
        LET r == with_builtins(drv, path)
        IN  Configure(r, Call("with_builtins", r.ok, r.err, EmptyBindings, DefaultOptLevel, 0,
                              path))

call_min_reserved_size ==
    \E n \in HeapSizes :
        LET r == min_reserved_size(drv, n)
        IN  Configure(r, Call("min_reserved_size", r.ok, r.err, EmptyBindings,
                              DefaultOptLevel, n, ""))

call_with_min_reserved_size ==
    \E n \in HeapSizes :
        LET r == with_min_reserved_size(drv, n)
        IN  Configure(r, Call("with_min_reserved_size", r.ok, r.err, EmptyBindings,
                              DefaultOptLevel, n, ""))

call_max_reserved_size ==
    \E n \in HeapSizes :
        LET r == max_reserved_size(drv, n)
        IN  Configure(r, Call("max_reserved_size", r.ok, r.err, EmptyBindings,
                              DefaultOptLevel, n, ""))

call_with_max_reserved_size ==
    \E n \in HeapSizes :
        LET r == with_max_reserved_size(drv, n)
        IN  Configure(r, Call("with_max_reserved_size", r.ok, r.err, EmptyBindings,
                              DefaultOptLevel, n, ""))

call_guard_size ==
    \E n \in HeapSizes :
        LET r == guard_size(drv, n)
        IN  Configure(r, Call("guard_size", r.ok, r.err, EmptyBindings, DefaultOptLevel, n, ""))

call_with_guard_size ==
    \E n \in HeapSizes :
        LET r == with_guard_size(drv, n)
        IN  Configure(r, Call("with_guard_size", r.ok, r.err, EmptyBindings, DefaultOptLevel, n,
                              ""))

\* ----------------------------------------------------- terminal operations

\* A terminal method takes self by value: the caller gives the driver up when
\* the call starts.
Enter(f) ==
    /\ state = "Configuring"
    /\ pc = "idle"
    /\ state' = "Consumed"
    /\ pre' = drv
    /\ module_contents' = NoBytes
    /\ compiler' = NoCompiler
    /\ fs' = f
    /\ ld' = NoLd
    /\ terminals' = terminals + 1
    /\ obj' = "none"
    /\ UNCHANGED <<drv, latest>>

\* The running terminal operation returns; shared_object_file's locals are
\* dropped on the way out.
Return(ok, err, f) ==
    /\ last' = Returned(call, ok, err)
    /\ call' = "none"
    /\ pc' = "idle"
    /\ fs' = IF call = "shared_object_file" THEN drop_tempdir(f) ELSE f

\* object_file(self, output), line 99: entry.
call_object_file ==
    /\ Enter(CleanFs)
    /\ call' = "object_file"
    /\ pc' = "serialize"
    /\ last' = NoCall

\* clif_ir(self, output), line 109: entry.
call_clif_ir ==
    /\ Enter(CleanFs)
    /\ call' = "clif_ir"
    /\ pc' = "serialize"
    /\ last' = NoCall

\* shared_object_file(self, output), line 123:
\* let dir = tempfile::Builder::new().prefix("lucetc").tempdir()?;
call_shared_object_file ==
    \E created \in BOOLEAN :
        IF created
        THEN /\ Enter([CleanFs EXCEPT !.tmpdir = TRUE])
             /\ call' = "shared_object_file"
             /\ pc' = "serialize"
             /\ last' = NoCall
        ELSE /\ Enter(CleanFs)
             /\ last' = Returned("shared_object_file", FALSE, Err("Io"))
             /\ UNCHANGED <<call, pc>>

\* let module_contents = serialize(self.module)?;
step_serialize ==
    /\ pc = "serialize"
    /\ \E ok \in BOOLEAN :
        IF ok
        THEN /\ module_contents' = serialize(drv.module)
             /\ pc' = "compiler_new"
             /\ UNCHANGED <<last, call, fs>>
        ELSE /\ Return(FALSE, Err("Serialize"), fs)
             /\ UNCHANGED module_contents
    /\ UNCHANGED <<state, drv, pre, compiler, ld, terminals, obj, latest>>

\* A Compiler::new whose error is not propagated.
step_compiler_new_unchecked ==
    /\ pc = "compiler_new"
    /\ \E accepted \in BOOLEAN :
        /\ compiler' = Compiler_new(module_contents, drv.opt_level, drv.bindings, drv.heap,
                                    accepted)
        /\ pc' = "emit"
        /\ UNCHANGED <<last, call, fs>>
    /\ UNCHANGED <<state, drv, pre, module_contents, ld, terminals, obj, latest>>

\* A Compiler::new that is given fresh default heap settings, not the driver's.
step_compiler_new_default_heap ==
    /\ pc = "compiler_new"
    /\ \E accepted \in BOOLEAN :
        LET c == Compiler_new(module_contents, drv.opt_level, drv.bindings, DefaultHeap, accepted)
        IN  IF c.ok
            THEN /\ compiler' = c
                 /\ pc' = "emit"
                 /\ UNCHANGED <<last, call, fs>>
            ELSE /\ Return(FALSE, c.err, fs)
                 /\ UNCHANGED compiler
    /\ UNCHANGED <<state, drv, pre, module_contents, ld, terminals, obj, latest>>

\* let compiler = Compiler::new(&module_contents, self.opt_level, &self.bindings, self.heap)?;
step_compiler_new ==
    /\ pc = "compiler_new"
    /\ \E accepted \in BOOLEAN :
        LET c == Compiler_new(module_contents, drv.opt_level, drv.bindings, drv.heap, accepted)
        IN  IF c.ok
            THEN /\ compiler' = c
                 /\ pc' = "emit"
                 /\ UNCHANGED <<last, call, fs>>
            ELSE /\ Return(FALSE, c.err, fs)
                 /\ UNCHANGED compiler
    /\ UNCHANGED <<state, drv, pre, module_contents, ld, terminals, obj, latest>>

\* An emission whose error is not propagated.
step_emit_unchecked ==
    /\ pc = "emit"
    /\ \E ok \in BOOLEAN :
        /\ obj' = IF ~ok THEN "none" ELSE IF call = "clif_ir" THEN "ir" ELSE "object"
        /\ pc' = "write"
        /\ UNCHANGED <<last, call, fs>>
    /\ UNCHANGED <<state, drv, pre, module_contents, compiler, ld, terminals, latest>>

\* compiler.object_file()? (object_file) or compiler.cranelift_funcs()? (clif_ir)
step_emit ==
    /\ pc = "emit"
    /\ \E ok \in BOOLEAN :
        IF ok
        THEN /\ obj' = IF call = "clif_ir" THEN "ir" ELSE "object"
             /\ pc' = "write"
             /\ UNCHANGED <<last, call, fs>>
        ELSE /\ Return(FALSE, IF call = "clif_ir" THEN Err("IrEmit") ELSE Err("Backend"), fs)
             /\ UNCHANGED obj
    /\ UNCHANGED <<state, drv, pre, module_contents, compiler, ld, terminals, latest>>

\* A write whose error shared_object_file does not propagate.
step_write_unchecked ==
    /\ pc = "write"
    /\ \E ok \in BOOLEAN :
        LET f == [fs EXCEPT !.writes = @ + 1]
        IN  IF call = "shared_object_file"
            THEN /\ fs' = [f EXCEPT !.tmpobj = ok]
                 /\ pc' = "link"
                 /\ UNCHANGED <<last, call>>
            ELSE IF ~ok
            THEN Return(FALSE, Err("Io"), f)
            ELSE Return(TRUE, NoErr,
                        [f EXCEPT !.out = IF call = "clif_ir" THEN "clif" ELSE "obj"])
    /\ UNCHANGED <<state, drv, pre, module_contents, compiler, ld, terminals, obj, latest>>

\* obj.write(output)? / .write(&output)?: the last statement of object_file
\* and clif_ir; inside shared_object_file the object goes to <dir>/tmp.o and
\* link_so comes next.
step_write ==
    /\ pc = "write"
    /\ \E ok \in BOOLEAN :
        LET f == [fs EXCEPT !.writes = @ + 1]
        IN  IF ~ok
            THEN Return(FALSE, Err("Io"), f)
            ELSE IF call = "shared_object_file"
            THEN /\ fs' = [f EXCEPT !.tmpobj = TRUE]
                 /\ pc' = "link"
                 /\ UNCHANGED <<last, call>>
            ELSE Return(TRUE, NoErr,
                        [f EXCEPT !.out = IF call = "clif_ir" THEN "clif" ELSE "obj"])
    /\ UNCHANGED <<state, drv, pre, module_contents, compiler, ld, terminals, obj, latest>>

\* link_so(objpath, output)?; Ok(())
step_link ==
    /\ pc = "link"
    /\ \E launched \in BOOLEAN, status \in ExitStatuses, stderr \in StderrOutputs :
        LET r == link_so("tmp.o", launched, status, stderr)
        IN  /\ launched \/ (status = 0 /\ stderr = <<>>)
            /\ ld' = [runs |-> ld.runs + 1, launched |-> launched, status |-> status,
                      stderr |-> stderr]
            /\ Return(r.ok, r.err, IF r.ok THEN [fs EXCEPT !.out = "so"] ELSE fs)
    /\ UNCHANGED <<state, drv, pre, module_contents, compiler, terminals, obj, latest>>

Next ==
    \/ new
    \/ call_bindings
    \/ call_with_bindings
    \/ call_opt_level
    \/ call_with_opt_level
    \/ call_builtins
    \/ call_with_builtins
    \/ call_min_reserved_size
    \/ call_with_min_reserved_size
    \/ call_max_reserved_size
    \/ call_with_max_reserved_size
    \/ call_guard_size
    \/ call_with_guard_size
    \/ call_object_file
    \/ call_clif_ir
    \/ call_shared_object_file
    \/ step_serialize
    \/ step_compiler_new
    \/ step_emit
    \/ step_write
    \/ step_link

Spec == Init /\ [][Next]_vars

\* ------------------------------------------------------------ the claims

ConfigCalls ==
    {"bindings", "with_bindings", "opt_level", "with_opt_level", "builtins", "with_builtins",
     "min_reserved_size", "with_min_reserved_size", "max_reserved_size",
     "with_max_reserved_size", "guard_size", "with_guard_size"}

TerminalCalls == {"object_file", "clif_ir", "shared_object_file"}

\* The caller holds a driver and no call is running: what it can observe.
Observable == state = "Configuring" /\ pc = "idle"

\* C1: a driver the caller can observe never has a module import patched to a
\* host symbol without that (namespace, field) -> symbol entry in its
\* bindings, and a with_builtins that returned an error left the module as it
\* was before the call.
C1_PatchedModuleHasItsBindings ==
    Observable =>
        /\ \A k \in Keys :
            drv.module.patched[k] # NotBound => drv.bindings[k] = drv.module.patched[k]
        /\ (last.op = "with_builtins" /\ ~last.ok) => drv.module = pre.module

\* C2: a configuration call that returned an error, in consuming or mutating
\* form, leaves the caller with a usable driver in Configuring: a bindings
\* call with no conflicting entry then succeeds and a terminal operation can
\* be started.
C2_ConfigErrorKeepsDriverUsable ==
    (last.op \in ConfigCalls /\ ~last.ok) =>
        /\ Observable
        /\ \A b \in BindingsArgs : Conflicts(drv.bindings, b) = {} => bindings(drv, b).ok

\* C3: a with_bindings(b) that fails does so because b rebinds an entry to a
\* different symbol, and leaves the registry (and the rest of the driver) as
\* it was before the call, also when b holds entries that do not conflict.
C3_FailedMergeIsAtomic ==
    (last.op = "with_bindings" /\ ~last.ok) =>
        /\ Conflicts(pre.bindings, last.b) # {}
        /\ drv.bindings = pre.bindings
        /\ drv = pre

\* C3 witness: a failed with_bindings whose argument also held an entry for a
\* key the registry did not bind.
C3_Witness ==
    /\ last.op = "with_bindings"
    /\ ~last.ok
    /\ \E k \in Keys : last.b[k] # NotBound /\ pre.bindings[k] = NotBound
    /\ \E k \in Keys : last.b[k] # NotBound /\ pre.bindings[k] \notin {NotBound, last.b[k]}

\* C4: with_bindings(b) succeeds exactly when b rebinds no entry to a different
\* symbol; it then inserts the absent entries and keeps the others, and merging
\* the same b again succeeds and changes nothing.
C4_MergeIsIdempotent ==
    last.op = "with_bindings" =>
        /\ last.ok <=> Conflicts(pre.bindings, last.b) = {}
        /\ last.ok =>
            /\ \A k \in Keys :
                drv.bindings[k] = IF pre.bindings[k] = NotBound THEN last.b[k]
                                  ELSE pre.bindings[k]
            /\ with_bindings(drv, last.b).ok
            /\ with_bindings(drv, last.b).drv = drv

\* C4 witness: b has just been merged into a registry that already held every
\* entry of b (the second of two equal merges), and b is not empty.
C4_Witness ==
    /\ last.op = "with_bindings"
    /\ last.ok
    /\ BoundKeys(last.b) # {}
    /\ \A k \in BoundKeys(last.b) : pre.bindings[k] = last.b[k]
    /\ drv = pre

\* The configuration operations other than builtins, with their arguments.
ConfigOp(kind, b, o, n) == [kind |-> kind, b |-> b, o |-> o, n |-> n]

NonBuiltinsOps ==
    {ConfigOp("bindings", b, DefaultOptLevel, 0) : b \in BindingsArgs}
        \cup {ConfigOp("opt_level", EmptyBindings, o, 0) : o \in OptLevels}
        \cup {ConfigOp(kind, EmptyBindings, DefaultOptLevel, n) :
                kind \in {"min_reserved_size", "max_reserved_size", "guard_size"},
                n \in HeapSizes}

\* The driver after applying a configuration operation in place.
Apply(d, op) ==
    CASE op.kind = "bindings" -> with_bindings(d, op.b).drv
      [] op.kind = "opt_level" -> with_opt_level(d, op.o).drv
      [] op.kind = "min_reserved_size" -> with_min_reserved_size(d, op.n).drv
      [] op.kind = "max_reserved_size" -> with_max_reserved_size(d, op.n).drv
      [] op.kind = "guard_size" -> with_guard_size(d, op.n).drv

\* The last call, when it was a configuration operation other than builtins
\* after which the caller still holds the driver.
LastIsNonBuiltins ==
    /\ Observable
    /\ last.op \in ConfigCalls \ {"builtins", "with_builtins"}

LastOp ==
    ConfigOp(CASE last.op \in {"bindings", "with_bindings"} -> "bindings"
               [] last.op \in {"opt_level", "with_opt_level"} -> "opt_level"
               [] last.op \in {"min_reserved_size", "with_min_reserved_size"} ->
                    "min_reserved_size"
               [] last.op \in {"max_reserved_size", "with_max_reserved_size"} ->
                    "max_reserved_size"
               [] OTHER -> "guard_size",
             last.b, last.o, last.n)

\* Two operations that cannot overwrite each other: different kinds, the same
\* call twice, or two bindings merges that bind no key to different symbols.
Independent(op1, op2) ==
    \/ op1.kind # op2.kind
    \/ op1 = op2
    \/ op1.kind = "bindings" /\ Conflicts(op1.b, op2.b) = {}

\* C5 (as claimed): the configuration operation just applied and any other
\* configuration operation other than builtins give the same driver in
\* either order.
C5_AnyTwoConfigOpsCommute ==
    LastIsNonBuiltins =>
        \A op2 \in NonBuiltinsOps : Apply(Apply(pre, op2), LastOp) = Apply(drv, op2)

\* C5 (amended): the configuration operation just applied and any other
\* configuration operation other than builtins give the same driver in either
\* order when they are of different kinds, are the same call, or are two
\* bindings merges that bind no key to different symbols.
C5_IndependentConfigOpsCommute ==
    LastIsNonBuiltins =>
        /\ drv = Apply(pre, LastOp)
        /\ \A op2 \in NonBuiltinsOps :
            Independent(LastOp, op2) => Apply(Apply(pre, op2), LastOp) = Apply(drv, op2)

\* C5 witness: a min_reserved_size call has changed the field, and a
\* max_reserved_size call that would change its own field can follow.
C5_Witness ==
    /\ LastIsNonBuiltins
    /\ last.op \in {"min_reserved_size", "with_min_reserved_size"}
    /\ drv.heap.min_reserved_size # pre.heap.min_reserved_size
    /\ \E op2 \in NonBuiltinsOps :
        /\ op2.kind = "max_reserved_size"
        /\ Apply(drv, op2) # drv

\* C6: a configuration call leaves the driver in Configuring, entering a
\* terminal operation moves it to Consumed whatever the operation returns,
\* nothing is applied to a Consumed driver, and at most one terminal operation
\* runs per driver.
C6_TerminalExclusivity ==
    [][/\ (state = "Configuring" /\ last'.op \in ConfigCalls) => state' = "Configuring"
       /\ (state = "Configuring" /\ call' \in TerminalCalls) => state' = "Consumed"
       /\ (state = "Configuring" /\ last'.op \in TerminalCalls) => state' = "Consumed"
       /\ (state = "Consumed" /\ last'.op # "new") => (drv' = drv /\ state' = "Consumed")
       /\ terminals' <= 1]_vars

\* C7: once shared_object_file has returned, the temporary directory it
\* created (and the object in it) no longer exists, whatever it returned.
C7_TempDirRemovedOnReturn ==
    last.op = "shared_object_file" => (~fs.tmpdir /\ ~fs.tmpobj)

\* C7 witness: shared_object_file created its directory, wrote the object, ran
\* the linker, which exited non-zero, and has returned the error.
C7_Witness ==
    /\ last.op = "shared_object_file"
    /\ ~last.ok
    /\ ld.runs = 1
    /\ ld.launched
    /\ ld.status # 0
    /\ ~fs.tmpdir

\* The linker ran to completion in the shared_object_file call that returned.
LinkerExited == last.op = "shared_object_file" /\ ld.runs > 0 /\ ld.launched

\* The characters of the linker's stderr, unchanged.
Verbatim(bytes) == [i \in 1..Len(bytes) |-> bytes[i]]

\* C8: when the linker exits non-zero, shared_object_file returns an error that
\* carries the linker's stderr verbatim and the exit status; it returns Ok
\* only after a zero exit status.
C8_LinkErrorCarriesStderrAndStatus ==
    /\ (LinkerExited /\ ld.status # 0) =>
        /\ ~last.ok
        /\ "text" \in DOMAIN last.err
        /\ last.err.text = Verbatim(ld.stderr)
        /\ "status" \in DOMAIN last.err
        /\ last.err.status = ld.status
    /\ (last.op = "shared_object_file" /\ last.ok) => (LinkerExited /\ ld.status = 0)

\* The imports of a module: those still unresolved and those the Patcher has
\* rewritten to a host symbol.
ImportsOf(module) == module.imports \cup {k \in Keys : module.patched[k] # NotBound}

\* C9: whenever a terminal operation has constructed the Compiler handle, every
\* key bound in the bindings it was given is an import of the driver's module.
C9_BindingsKeysAreImports ==
    compiler.ok => BoundKeys(compiler.bindings) \subseteq ImportsOf(drv.module)

\* C10: object_file on a driver with min_reserved_size > max_reserved_size
\* returns an error and writes nothing at the output path; once the module has
\* been serialized, the error is InvalidHeap.
C10_InvalidHeapStopsObjectFile ==
    /\ (last.op = "object_file"
            /\ drv.heap.min_reserved_size > drv.heap.max_reserved_size) =>
        /\ ~last.ok
        /\ fs.out = "none"
        /\ module_contents.written => last.err = Err("InvalidHeap")
    /\ (call = "object_file" /\ pc \in {"emit", "write"}) =>
        drv.heap.min_reserved_size <= drv.heap.max_reserved_size

\* C10 witness: object_file has returned InvalidHeap for min_reserved_size =
\* 65536 and max_reserved_size = 32768.
C10_Witness ==
    /\ last.op = "object_file"
    /\ drv.heap.min_reserved_size = 65536
    /\ drv.heap.max_reserved_size = 32768
    /\ last.err = Err("InvalidHeap")
    /\ fs.out = "none"

\* C11: the Compiler handle of a terminal operation is built from the
\* serialization of the driver's module as the last configuration left it, the
\* argument of the most recent opt-level call (or the default), the driver's
\* accumulated bindings, and heap settings whose fields are the arguments of
\* the most recent call of each setter (or the defaults).
C11_TerminalSeesLastConfiguration ==
    /\ call \in TerminalCalls => drv = pre
    /\ compiler.ok =>
        /\ compiler.module_contents = serialize(pre.module)
        /\ compiler.bindings = pre.bindings
        /\ compiler.opt_level = latest.opt_level
        /\ compiler.heap = [min_reserved_size |-> latest.min_reserved_size,
                            max_reserved_size |-> latest.max_reserved_size,
                            guard_size |-> latest.guard_size]

\* C11 witness: a handle built for a driver whose module was patched, whose
\* bindings are not empty and whose opt level, guard size and min reserved
\* size were set away from the defaults.
C11_Witness ==
    /\ compiler.ok
    /\ latest.opt_level # DefaultOptLevel
    /\ latest.guard_size # DefaultHeap.guard_size
    /\ latest.min_reserved_size # DefaultHeap.min_reserved_size
    /\ compiler.bindings # EmptyBindings
    /\ compiler.module_contents.wasm.patched # NoPatches

\* What the two forms of the last configuration call return on the driver as
\* it was before the call.
MutatingForm ==
    CASE last.op \in {"bindings", "with_bindings"} -> with_bindings(pre, last.b)
      [] last.op \in {"opt_level", "with_opt_level"} -> with_opt_level(pre, last.o)
      [] last.op \in {"builtins", "with_builtins"} -> with_builtins(pre, last.path)
      [] last.op \in {"min_reserved_size", "with_min_reserved_size"} ->
            with_min_reserved_size(pre, last.n)
      [] last.op \in {"max_reserved_size", "with_max_reserved_size"} ->
            with_max_reserved_size(pre, last.n)
      [] OTHER -> with_guard_size(pre, last.n)

ConsumingForm ==
    CASE last.op \in {"bindings", "with_bindings"} -> bindings(pre, last.b)
      [] last.op \in {"opt_level", "with_opt_level"} -> opt_level(pre, last.o)
      [] last.op \in {"builtins", "with_builtins"} -> builtins(pre, last.path)
      [] last.op \in {"min_reserved_size", "with_min_reserved_size"} ->
            min_reserved_size(pre, last.n)
      [] last.op \in {"max_reserved_size", "with_max_reserved_size"} ->
            max_reserved_size(pre, last.n)
      [] OTHER -> guard_size(pre, last.n)

\* C12: for the driver and argument of every configuration call made, the
\* consuming form succeeds exactly when the mutating form does, with the same
\* error otherwise, and on success hands back the driver the mutating form
\* leaves in place.
C12_FormsAgree ==
    last.op \in ConfigCalls =>
        /\ ConsumingForm.ok = MutatingForm.ok
        /\ ConsumingForm.err = MutatingForm.err
        /\ MutatingForm.ok =>
            /\ ConsumingForm.drv = MutatingForm.drv
            /\ ConsumingForm.owner = "caller"
            /\ drv = MutatingForm.drv
        /\ last.ok = MutatingForm.ok

\* C12 witness: the consuming form opt_level has changed the level of a driver
\* the caller still holds.
C12_Witness ==
    /\ last.op = "opt_level"
    /\ last.ok
    /\ state = "Configuring"
    /\ drv.opt_level # pre.opt_level

\* The errors with which object_file returns.
ObjectFileErrors == {Err("Serialize"), Err("InvalidHeap"), Err("Backend"), Err("Io")}

\* C13: in shared_object_file the temporary directory exists from the first
\* step until the call returns and is gone then; the linker is invoked at most
\* once, only with the object compiled and written into the directory that
\* still exists, and never when object_file returned an error.
C13_SharedObjectFileOrder ==
    [][/\ ld'.runs > ld.runs =>
            /\ call = "shared_object_file"
            /\ pc = "link"
            /\ ld.runs = 0
            /\ ld'.runs = 1
            /\ module_contents.written
            /\ compiler.ok
            /\ obj = "object"
            /\ fs.writes = 1
            /\ fs.tmpobj
            /\ fs.tmpdir
       /\ (call' = "shared_object_file" /\ pc' # "idle") => fs'.tmpdir
       /\ fs'.tmpobj => fs'.tmpdir
       /\ (last'.op = "shared_object_file" /\ last'.err \in ObjectFileErrors) => ld'.runs = 0
       /\ last'.op = "shared_object_file" => ~fs'.tmpdir]_vars

\* C13 witness: shared_object_file has gone through all four steps and returned
\* Ok: the linker ran once, the shared object is there, the directory is gone.
C13_Witness ==
    /\ last.op = "shared_object_file"
    /\ last.ok
    /\ ld.runs = 1
    /\ fs.out = "so"
    /\ fs.writes = 1
    /\ ~fs.tmpdir

OptLevelCalls == {"opt_level", "with_opt_level"}
MinCalls == {"min_reserved_size", "with_min_reserved_size"}
MaxCalls == {"max_reserved_size", "with_max_reserved_size"}
GuardCalls == {"guard_size", "with_guard_size"}

\* C14: a call that sets the opt level, the min or max reserved size or the
\* guard size succeeds, leaves the driver with the caller and changes exactly
\* its own field to its argument; a call that sets bindings leaves the module,
\* the opt level and the heap settings as they were.
C14_SettersChangeOwnFieldOnly ==
    /\ last.op \in OptLevelCalls \cup MinCalls \cup MaxCalls \cup GuardCalls =>
        /\ last.ok
        /\ state = "Configuring"
    /\ last.op \in OptLevelCalls => drv = [pre EXCEPT !.opt_level = last.o]
    /\ last.op \in MinCalls => drv = [pre EXCEPT !.heap.min_reserved_size = last.n]
    /\ last.op \in MaxCalls => drv = [pre EXCEPT !.heap.max_reserved_size = last.n]
    /\ last.op \in GuardCalls => drv = [pre EXCEPT !.heap.guard_size = last.n]
    /\ last.op \in {"bindings", "with_bindings"} =>
        /\ drv.module = pre.module
        /\ drv.opt_level = pre.opt_level
        /\ drv.heap = pre.heap

\* C14 witness: with_guard_size has changed the guard size of a driver whose
\* other fields had all been configured away from their initial values.
C14_Witness ==
    /\ last.op = "with_guard_size"
    /\ drv.heap.guard_size # pre.heap.guard_size
    /\ pre.heap.min_reserved_size # DefaultHeap.min_reserved_size
    /\ pre.opt_level # DefaultOptLevel
    /\ pre.bindings # EmptyBindings
    /\ pre.module.patched # NoPatches

\* The errors object_file and clif_ir return before they reach the write.
BeforeWriteErrors == {Err("Serialize"), Err("InvalidHeap"), Err("Backend"), Err("IrEmit")}

\* C15: object_file and clif_ir ask for the write of the output only after
\* serialization, Compiler::new and the backend's emission have succeeded, and
\* at most once; when one of these fails they return its error with no write
\* asked for and nothing at the output path.
C15_WriteIsLastStep ==
    /\ fs.writes <= 1
    /\ fs.writes > 0 =>
        /\ module_contents.written
        /\ compiler.ok
        /\ obj # "none"
    /\ (last.op \in {"object_file", "clif_ir"} /\ last.err \in BeforeWriteErrors) =>
        /\ ~last.ok
        /\ fs.writes = 0
        /\ fs.out = "none"
    /\ (last.op \in {"object_file", "clif_ir"} /\ fs.writes = 0) =>
        last.err \in BeforeWriteErrors
    /\ (call \in {"object_file", "clif_ir"} /\ pc = "write") => fs.out = "none"

\* C15 witness: clif_ir has returned the backend's emission error after the
\* module was serialized and the Compiler built, with no write asked for.
C15_Witness ==
    /\ last.op = "clif_ir"
    /\ last.err = Err("IrEmit")
    /\ module_contents.written
    /\ compiler.ok
    /\ fs.writes = 0

PatchErrors == {Err("PatchArtifactRead"), Err("PatchSignatureMismatch")}

\* C16: a with_builtins in which the Patcher failed returns the Patcher's
\* error and leaves the driver with the caller, every field (module, bindings,
\* opt level, heap settings) as it was before the call.
C16_PatchFailureChangesNothing ==
    /\ (last.op = "with_builtins" /\ last.err \in PatchErrors) =>
        /\ ~last.ok
        /\ state = "Configuring"
        /\ drv = pre
    /\ (last.op = "with_builtins" /\ ~patch_module(pre.module, last.path).ok) =>
        /\ last.err = patch_module(pre.module, last.path).err
        /\ last.err \in PatchErrors

\* C16 witness: with_builtins has returned the Patcher's SignatureMismatch on a
\* driver with an unresolved import, bindings and a non-default opt level.
C16_Witness ==
    /\ last.op = "with_builtins"
    /\ last.err = Err("PatchSignatureMismatch")
    /\ pre.module.imports # {}
    /\ pre.bindings # EmptyBindings
    /\ pre.opt_level # DefaultOptLevel
    /\ drv = pre

\* C17: after a configuration call, successful or failed, every entry the
\* registry held before the call is still there with the same symbol.
C17_RegistryOnlyGrows ==
    (last.op \in ConfigCalls /\ state = "Configuring") =>
        \A k \in Keys : pre.bindings[k] # NotBound => drv.bindings[k] = pre.bindings[k]

\* C17 witness: a successful with_builtins has added its entry to a registry
\* that already held another one.
C17_Witness ==
    /\ last.op = "with_builtins"
    /\ last.ok
    /\ pre.bindings # EmptyBindings
    /\ drv.bindings # pre.bindings

\* C18: new returns the loader's error and leaves no driver when loading
\* fails; when it succeeds the driver is in Configuring with the loaded module,
\* empty bindings and the default opt level and heap settings, and a terminal
\* operation started with no configuration call in between builds its
\* Compiler from exactly these.
C18_NewDriverIsDefault ==
    /\ last.op = "new" =>
        /\ last.ok = read_module(last.path).ok
        /\ last.err = read_module(last.path).err
        /\ ~last.ok => state = "NoDriver"
        /\ last.ok =>
            /\ state = "Configuring"
            /\ drv = [module |-> read_module(last.path).module, bindings |-> EmptyBindings,
                      opt_level |-> DefaultOptLevel, heap |-> DefaultHeap]
    /\ state # "NoDriver" => read_module(latest.input).ok
    /\ (compiler.ok /\ ~latest.configured) =>
        /\ compiler.module_contents = serialize(read_module(latest.input).module)
        /\ compiler.bindings = EmptyBindings
        /\ compiler.opt_level = DefaultOptLevel
        /\ compiler.heap = DefaultHeap

\* C18 witness: a terminal operation has built its Compiler for a driver
\* created from imports.wasm and never configured.
C18_Witness ==
    /\ compiler.ok
    /\ ~latest.configured
    /\ latest.input = "imports.wasm"
    /\ compiler.module_contents.wasm.imports # {}

\* C18 witness of the failing case: new has returned the loader's error and
\* there is no driver.
C18_LoadFailed ==
    /\ last.op = "new"
    /\ ~last.ok
    /\ state = "NoDriver"

====
